---- MODULE Spec2Model ----
(***************************************************************************)
(* yt_thumbs: the extractor functions (extractor.py) and the command       *)
(* surface (cli.py) as a state machine.                                    *)
(*                                                                         *)
(* Text is a sequence of strings.  Where the code looks inside a string    *)
(* (the URL handed to re.search, a title, a description, a Content-Length  *)
(* header, a batch line) every element is one character.  A string literal *)
(* of the source that the code only concatenates or prints is kept as one  *)
(* element ("| Thumbnail URL | Video Name | Video Description |").         *)
(*                                                                         *)
(* Python's None is the record NONE below for arguments and headers, and   *)
(* the empty sequence for the result of extract_video_id (a match group is *)
(* always 11 characters, so the two cannot be confused; both are falsy).   *)
(*                                                                         *)
(* The environment (network, filesystem) is a nondeterministic choice in   *)
(* the action that performs the call.  A call that fails raises one of the *)
(* exception classes of ExcClasses; which handler catches it is decided by *)
(* the except clauses of the source and Python's class hierarchy.          *)
(*                                                                         *)
(* A local of the code that is computed once and used several times is     *)
(* bound with \E x \in {e}, which evaluates e once.                        *)
(***************************************************************************)
EXTENDS Integers, Sequences, FiniteSets, TLC

VARIABLES
    pc,               \* position of main(): see the actions below
    args,             \* argparse namespace: url, batch, download, output
    fs0,              \* destination file before the run
    fs,               \* destination file and its parent directory now
    batchRead,        \* what reading the batch file did, once it has been read
    net,              \* URLs requested with urlopen, in order
    stdout,           \* texts printed to standard output, in order
    stderr,           \* texts printed to the diagnostic stream, in order
    exitCode,         \* process exit status, -1 while running
    uncaught,         \* class of the exception that left main(), "" if none
    raisedAt,         \* pc at which that exception was raised
    video_id,         \* main(): video_id
    output_path,      \* main(): output_path
    success,          \* main(): success, as a string "", "True", "False"
    resp1,            \* what urlopen(max_res_url) did in download_thumbnail
    urls,             \* process_batch_urls: urls
    idx,              \* process_batch_urls: position of the for loop
    table_lines,      \* process_batch_urls: table_lines
    processed_count,  \* process_batch_urls: processed_count
    metaCall,         \* the last call of get_video_metadata and its result
    xurl, xres, xdone,      \* extract_video_id applied to one string
    rmeta, rrow, rdone      \* one metadata record turned into a table row

mainVars == <<pc, args, fs0, fs, batchRead, net, stdout, stderr, exitCode,
              uncaught, raisedAt, video_id, output_path, success, resp1,
              urls, idx, table_lines, processed_count, metaCall>>
extractVars == <<xurl, xres, xdone>>
rowVars == <<rmeta, rrow, rdone>>
vars == <<mainVars, extractVars, rowVars>>

(***************************************************************************)
(* Bounds of the model.                                                    *)
(***************************************************************************)
MaxPieces == 4        \* pieces concatenated into an input of extract_video_id
MaxLines == 3         \* lines of a batch file
MaxPipes == 3         \* `|` characters in a generated description
MaxTail == 3          \* characters after the pipes in a generated description

(***************************************************************************)
(* Text helpers.                                                           *)
(***************************************************************************)
RECURSIVE Flatten(_)
Flatten(ss) == IF ss = <<>> THEN <<>> ELSE Head(ss) \o Flatten(Tail(ss))

RECURSIVE Repeat(_, _)
Repeat(c, n) == IF n <= 0 THEN <<>> ELSE <<c>> \o Repeat(c, n - 1)

SeqsUpTo(S, n) == UNION {[1..k -> S] : k \in 0..n}

\* str.replace(old, new) for a one-character old
RECURSIVE Replace(_, _, _)
Replace(s, old, new) ==
    IF s = <<>> THEN <<>>
    ELSE (IF Head(s) = old THEN new ELSE <<Head(s)>>) \o Replace(Tail(s), old, new)

Whitespace == {" ", "\t", "\n", "\r"}

\* str.strip()
RECURSIVE LStrip(_)
LStrip(s) == IF s # <<>> /\ Head(s) \in Whitespace THEN LStrip(Tail(s)) ELSE s
RECURSIVE RStrip(_)
RStrip(s) ==
    IF s # <<>> /\ s[Len(s)] \in Whitespace THEN RStrip(SubSeq(s, 1, Len(s) - 1)) ELSE s
Strip(s) == RStrip(LStrip(s))

\* "\n".join(lines)
RECURSIVE JoinLines(_)
JoinLines(ls) ==
    IF ls = <<>> THEN <<>>
    ELSE IF Len(ls) = 1 THEN ls[1]
    ELSE ls[1] \o <<"\n">> \o JoinLines(Tail(ls))

\* text.split("\n")
RECURSIVE SplitFrom(_, _, _)
SplitFrom(t, i, cur) ==
    IF i > Len(t) THEN <<cur>>
    ELSE IF t[i] = "\n" THEN <<cur>> \o SplitFrom(t, i + 1, <<>>)
    ELSE SplitFrom(t, i + 1, Append(cur, t[i]))
SplitLines(t) == SplitFrom(t, 1, <<>>)

(***************************************************************************)
(* extractor.py: extract_video_id                                          *)
(***************************************************************************)
IdLen == 11
IdChars ==
    {"a", "b", "c", "d", "e", "f", "g", "h", "i", "j", "k", "l", "m", "n", "o",
     "p", "q", "r", "s", "t", "u", "v", "w", "x", "y", "z", "A", "B", "C", "D",
     "E", "F", "G", "H", "I", "J", "K", "L", "M", "N", "O", "P", "Q", "R", "S",
     "T", "U", "V", "W", "X", "Y", "Z", "0", "1", "2", "3", "4", "5", "6", "7",
     "8", "9", "_", "-"}

\* the literal part of each pattern (the non-capturing group)
WatchLit == <<"y", "o", "u", "t", "u", "b", "e", ".", "c", "o", "m", "/",
              "w", "a", "t", "c", "h", "?", "v", "=">>
ShortLit == <<"y", "o", "u", "t", "u", ".", "b", "e", "/">>
EmbedLit == <<"y", "o", "u", "t", "u", "b", "e", ".", "c", "o", "m", "/",
              "e", "m", "b", "e", "d", "/">>

NoMatch == <<>>

\* the pattern (?:lit)([a-zA-Z0-9_-]{11}) matches url at position i
MatchAt(lit, url, i) ==
    /\ i + Len(lit) + IdLen - 1 <= Len(url)
    /\ \A k \in 1..Len(lit) : url[i + k - 1] = lit[k]
    /\ \A k \in 0..(IdLen - 1) : url[i + Len(lit) + k] \in IdChars

\* re.search(pattern, url): the leftmost match, scanning from position i;
\* the result is match.group(1), or NoMatch
RECURSIVE re_search_from(_, _, _)
re_search_from(lit, url, i) ==
    IF i > Len(url) THEN NoMatch
    ELSE IF MatchAt(lit, url, i)
         THEN SubSeq(url, i + Len(lit), i + Len(lit) + IdLen - 1)
         ELSE re_search_from(lit, url, i + 1)
re_search(lit, url) == re_search_from(lit, url, 1)

\* the same list with the short pattern tried first
PatternsShortFirst == <<ShortLit, WatchLit, EmbedLit>>
\* the list the for loop iterates over
Patterns == <<WatchLit, ShortLit, EmbedLit>>

RECURSIVE TryPatterns(_, _)
TryPatterns(url, k) ==
    IF k > Len(Patterns) THEN NoMatch
    ELSE LET match == re_search(Patterns[k], url)
         IN  IF match # NoMatch THEN match ELSE TryPatterns(url, k + 1)

extract_video_id(url) == TryPatterns(url, 1)

(***************************************************************************)
(* extractor.py: get_thumbnail_url                                         *)
(***************************************************************************)
get_thumbnail_url(vid) ==
    <<"https://img.youtube.com/vi/">> \o vid \o <<"/maxresdefault.jpg">>

(***************************************************************************)
(* Python values and exceptions.                                           *)
(***************************************************************************)
\* an optional string: an absent argument or header is None
NONE == [present |-> FALSE, val |-> <<>>]
Some(t) == [present |-> TRUE, val |-> t]
\* bool(x) of an optional string: None and "" are falsy
Truthy(x) == x.present /\ x.val # <<>>

\* the exception classes the calls of the program raise, and their subclasses:
\*   HTTPError < URLError < OSError (urllib.error), FileNotFoundError < OSError,
\*   UnicodeDecodeError < ValueError, http.client.HTTPException (IncompleteRead,
\*   BadStatusLine); all are subclasses of Exception
ExcClasses == {"HTTPError", "URLError", "OSError", "FileNotFoundError",
               "ValueError", "UnicodeDecodeError", "HTTPException"}
SubclassesOf(c) ==
    CASE c = "Exception" -> ExcClasses
      [] c = "OSError" -> {"OSError", "URLError", "HTTPError", "FileNotFoundError"}
      [] c = "URLError" -> {"URLError", "HTTPError"}
      [] c = "ValueError" -> {"ValueError", "UnicodeDecodeError"}
      [] OTHER -> {c}
\* an except clause naming the classes of `handlers` catches exc
Catches(handlers, exc) == \E c \in handlers : exc \in SubclassesOf(c)

DigitVal(c) ==
    CASE c = "0" -> 0 [] c = "1" -> 1 [] c = "2" -> 2 [] c = "3" -> 3 [] c = "4" -> 4
      [] c = "5" -> 5 [] c = "6" -> 6 [] c = "7" -> 7 [] c = "8" -> 8 [] c = "9" -> 9
Digits == {"0", "1", "2", "3", "4", "5", "6", "7", "8", "9"}

RECURSIVE DigitsValue(_, _)
DigitsValue(s, acc) ==
    IF s = <<>> THEN acc ELSE DigitsValue(Tail(s), 10 * acc + DigitVal(Head(s)))

\* int(s) for the header values of the model: optional sign, decimal digits;
\* anything else raises ValueError
ParseInt(s) ==
    LET t == Strip(s)
        signed == t # <<>> /\ Head(t) \in {"-", "+"}
        body == IF signed THEN Tail(t) ELSE t
    IN  IF body # <<>> /\ \A i \in 1..Len(body) : body[i] \in Digits
        THEN [exc |-> "",
              val |-> IF signed /\ Head(t) = "-" THEN 0 - DigitsValue(body, 0)
                      ELSE DigitsValue(body, 0)]
        ELSE [exc |-> "ValueError", val |-> 0]

(***************************************************************************)
(* extractor.py: get_video_metadata                                        *)
(***************************************************************************)
WatchUrl(vid) == <<"https://www.youtube.com/watch?v=">> \o vid

\* A fetched page is the sequence of its <meta property=".." content=".."> tags.
\* re.search(r'<meta\s+property="og:title"\s+content="([^"]*)"', html): the first
\* tag with that property; group(1) is its content, which holds no `"`.
RECURSIVE FirstTag(_, _)
FirstTag(html, prop) ==
    IF html = <<>> THEN NONE
    ELSE IF Head(html).prop = prop THEN Some(Head(html).content)
    ELSE FirstTag(Tail(html), prop)

\* except (urllib.error.HTTPError, urllib.error.URLError, OSError)
MetaHandlers == {"HTTPError", "URLError", "OSError"}

\* fetch: what `urlopen(url, timeout=10)`, `response.read()` and `.decode("utf-8")`
\* do: [exc |-> class raised, "" if none, html |-> the page]
\* result: [exc |-> class raised to the caller, ret |-> the dictionary returned]
get_video_metadata(vid, fetch) ==
    LET metadata == [title |-> <<>>, description |-> <<>>,
                     thumbnail_url |-> get_thumbnail_url(vid)]
        title_match == FirstTag(fetch.html, "og:title")
        desc_match == FirstTag(fetch.html, "og:description")
        parsed == [metadata EXCEPT
                     !.title = IF title_match.present THEN title_match.val ELSE @,
                     !.description = IF desc_match.present THEN desc_match.val ELSE @]
    IN  IF fetch.exc = "" THEN [exc |-> "", ret |-> parsed]
        ELSE IF Catches(MetaHandlers, fetch.exc) THEN [exc |-> "", ret |-> metadata]
        ELSE [exc |-> fetch.exc, ret |-> metadata]

(***************************************************************************)
(* cli.py: a metadata record turned into a table row (process_batch_urls)  *)
(***************************************************************************)
DescLimit == 100
DescKeep == 97
Ellipsis == <<".", ".", ".">>

\* .replace("|", "\\|")
EscapePipes(s) == Replace(s, "|", <<"\\", "|">>)

\* the cell had the cut been decided, and made, on the scraped text
TruncateRaw(raw) ==
    IF Len(raw) > DescLimit THEN EscapePipes(SubSeq(raw, 1, DescKeep)) \o Ellipsis
    ELSE EscapePipes(raw)
\* the description cell: escaped first, then cut by the length of the escaped text
DescriptionCell(raw) ==
    LET description == EscapePipes(raw)
    IN  IF Len(description) > DescLimit
        THEN SubSeq(description, 1, DescKeep) \o Ellipsis
        ELSE description

TitleCell(raw) == EscapePipes(raw)

\* f"| {thumbnail_url} | {title} | {description} |"
TableRow(metadata) ==
    <<"| ">> \o metadata.thumbnail_url \o <<" | ">> \o TitleCell(metadata.title)
        \o <<" | ">> \o DescriptionCell(metadata.description) \o <<" |">>

TableHeader == <<"| Thumbnail URL | Video Name | Video Description |">>
TableSeparator == <<"|---------------|------------|-------------------|">>

(***************************************************************************)
(* extractor.py: download_thumbnail                                        *)
(***************************************************************************)
MaxResUrl(vid) == <<"https://img.youtube.com/vi/">> \o vid \o <<"/maxresdefault.jpg">>
HqUrl(vid) == <<"https://img.youtube.com/vi/">> \o vid \o <<"/hqdefault.jpg">>

\* the body the server sends for a URL, and a prefix of it
Body(url) == <<"body of ">> \o url
PartialBody(url) == <<"part of the body of ">> \o url

MinImageBytes == 1000

\* what open(output_path, "wb") / response.read() / f.write() do in one attempt:
\*   "ok"          all three succeed
\*   "open_fails"  open raises OSError (permission, is a directory, ...)
\*   "read_os"     open succeeds, read raises OSError (reset, timeout)
\*   "read_http"   open succeeds, read raises http.client.IncompleteRead
\*   "write_fails" open and read succeed, write or close raises OSError (disk full)
IoOutcomes == {"ok", "open_fails", "read_os", "read_http", "write_fails"}

\* with open(output_path, "wb") as f: f.write(response.read())
\* [exc |-> class raised, file |-> the destination file afterwards]
WriteBody(file, url, io) ==
    CASE io = "ok" -> [exc |-> "", file |-> [exists |-> TRUE, data |-> Body(url)]]
      [] io = "open_fails" -> [exc |-> "OSError", file |-> file]
      [] io = "read_os" -> [exc |-> "OSError", file |-> [exists |-> TRUE, data |-> <<>>]]
      [] io = "read_http" ->
            [exc |-> "HTTPException", file |-> [exists |-> TRUE, data |-> <<>>]]
      [] io = "write_fails" ->
            [exc |-> "OSError", file |-> [exists |-> TRUE, data |-> PartialBody(url)]]

\* except (urllib.error.HTTPError, urllib.error.URLError)
Tier1Handlers == {"HTTPError", "URLError"}
\* except (urllib.error.HTTPError, urllib.error.URLError, OSError)
Tier2Handlers == {"HTTPError", "URLError", "OSError"}

\* content_length and int(content_length) > 1000
\* [exc |-> class raised by int(), usable |-> the value of the condition]
Usable(content_length) ==
    IF ~Truthy(content_length) THEN [exc |-> "", usable |-> FALSE]
    ELSE LET n == ParseInt(content_length.val)
         IN  [exc |-> n.exc, usable |-> n.exc = "" /\ n.val > MinImageBytes]

\* The first try statement.  resp: [exc |-> class raised by urlopen, "" if it
\* returned, cl |-> the Content-Length header].
\* [ret |-> "True" when the function returns here, "" when it goes on to the
\*  fallback, exc |-> class raised to the caller, file |-> the file afterwards]
TryMaxRes(file, vid, resp, io) ==
    LET u == Usable(resp.cl)
        w == WriteBody(file, MaxResUrl(vid), io)
        body == IF resp.exc # "" THEN [ret |-> "", exc |-> resp.exc, file |-> file]
                ELSE IF u.exc # "" THEN [ret |-> "", exc |-> u.exc, file |-> file]
                ELSE IF ~u.usable THEN [ret |-> "", exc |-> "", file |-> file]
                ELSE IF w.exc # "" THEN [ret |-> "", exc |-> w.exc, file |-> w.file]
                ELSE [ret |-> "True", exc |-> "", file |-> w.file]
    IN  IF body.exc # "" /\ Catches(Tier1Handlers, body.exc)
        THEN [body EXCEPT !.exc = ""]
        ELSE body

\* The second try statement: [ret |-> "True" or "False", exc, file]
TryHq(file, vid, resp, io) ==
    LET w == WriteBody(file, HqUrl(vid), io)
        body == IF resp.exc # "" THEN [ret |-> "", exc |-> resp.exc, file |-> file]
                ELSE IF w.exc # "" THEN [ret |-> "", exc |-> w.exc, file |-> w.file]
                ELSE [ret |-> "True", exc |-> "", file |-> w.file]
    IN  IF body.exc # "" /\ Catches(Tier2Handlers, body.exc)
        THEN [body EXCEPT !.exc = "", !.ret = "False"]
        ELSE body

(***************************************************************************)
(* Inputs of the command: arguments, files, responses.                     *)
(***************************************************************************)
Scheme == <<"h", "t", "t", "p", "s", ":", "/", "/">>
IdA == <<"d", "Q", "w", "4", "w", "9", "W", "g", "X", "c", "Q">>
IdB == <<"a", "_", "B", "-", "c", "0", "D", "1", "e", "2", "F">>
NotAUrl == <<"n", "o", "t", "-", "a", "-", "u", "r", "l">>
ShortUrl == Scheme \o ShortLit \o IdA
WatchUrlB == Scheme \o <<"w", "w", "w", ".">> \o WatchLit \o IdB \o <<"&", "t", "=", "1">>

UrlArgs == {NONE, Some(<<>>), Some(ShortUrl), Some(NotAUrl)}
BatchArgs == {NONE, Some(<<"urls.txt">>)}
OutputArgs == {NONE, Some(<<"out">>), Some(<<"dir", "/", "out">>)}
ArgSets == [url : UrlArgs, batch : BatchArgs, download : BOOLEAN, output : OutputArgs]

NoFile == [exists |-> FALSE, data |-> <<>>]
OldFile == [exists |-> TRUE, data |-> <<"old contents">>]

\* the lines of a batch file, without their line terminators
LineValues == {ShortUrl, <<" ">> \o WatchUrlB, NotAUrl, <<" ">>}
BatchFiles == SeqsUpTo(LineValues, MaxLines)

\* outcomes of reading the batch file: the class raised, or the lines
BatchReads ==
    {[exc |-> e, lines |-> <<>>] : e \in {"FileNotFoundError", "OSError", "UnicodeDecodeError"}}
        \cup {[exc |-> "", lines |-> f] : f \in BatchFiles}

\* watch pages: without meta tags; with a title and a description holding `|`
\* after another tag and before a second og:title; with a title holding a newline
PlainPage == <<>>
PipePage ==
    <<[prop |-> "description", content |-> <<"z">>],
      [prop |-> "og:title", content |-> <<"a", "|", "b">>],
      [prop |-> "og:title", content |-> <<"c">>],
      [prop |-> "og:description", content |-> <<"x", "|", "y">>]>>
NewlinePage == <<[prop |-> "og:title", content |-> <<"a", "\n", "b">>]>>
Pages == {PlainPage, PipePage, NewlinePage}

\* outcomes of urlopen + read + decode of the watch page: urlopen raises
\* URLError, decode raises UnicodeDecodeError, or the page is read
Fetches ==
    {[exc |-> e, html |-> <<>>] : e \in {"URLError", "UnicodeDecodeError"}}
        \cup {[exc |-> "", html |-> p] : p \in Pages}

ContentLengths ==
    {NONE, Some(<<>>), Some(<<"0">>), Some(<<"-", "1">>), Some(<<"1", "0", "0", "0">>),
     Some(<<"1", "0", "0", "1">>), Some(<<"a", "b", "c">>)}

\* outcomes of urlopen of an image URL: the class raised (OSError: a reset or
\* timeout while waiting for the response, which urlopen does not wrap), or a
\* response with its Content-Length header
Responses ==
    {[exc |-> e, cl |-> NONE] : e \in {"HTTPError", "URLError", "OSError", "HTTPException"}}
        \cup {[exc |-> "", cl |-> c] : c \in ContentLengths}

(***************************************************************************)
(* pathlib: Path(p).parent, as the text before the last "/" (empty: ".")   *)
(***************************************************************************)
RECURSIVE ParentOf(_)
ParentOf(p) ==
    IF p = <<>> THEN <<>>
    ELSE IF p[Len(p)] = "/" THEN SubSeq(p, 1, Len(p) - 1)
    ELSE ParentOf(SubSeq(p, 1, Len(p) - 1))
HasParentDir(p) == ParentOf(p) # <<>>

(***************************************************************************)
(* How a run ends.                                                         *)
(***************************************************************************)
\* status of ArgumentParser.error(), which prints the usage and exits
ParserErrorStatus == 2
\* status of an interpreter that ends with an uncaught exception
UncaughtStatus == 1

\* sys.exit(code), or main() returning (code 0)
Exits(code) ==
    /\ pc' = "done"
    /\ exitCode' = code
    /\ UNCHANGED <<uncaught, raisedAt>>

\* an exception leaves main(): the interpreter prints the traceback and exits
Raises(exc) ==
    /\ pc' = "done"
    /\ exitCode' = UncaughtStatus
    /\ uncaught' = exc
    /\ raisedAt' = pc

Traceback(exc) == <<"Traceback (most recent call last): ", exc>>

(***************************************************************************)
(* cli.py: main(), argument validation (lines 145-160)                     *)
(***************************************************************************)
\* no validation at all
UsageErrorNone(a) == <<>>
\* the message of the parser.error() call reached, <<>> if none is
UsageError(a) ==
    IF Truthy(a.batch) /\ Truthy(a.url)
    THEN <<"Cannot use both URL argument and --batch flag. Choose one mode.">>
    ELSE IF ~Truthy(a.batch) /\ ~Truthy(a.url)
    THEN <<"Either provide a URL or use --batch flag with a file">>
    ELSE IF Truthy(a.batch) /\ a.download
    THEN <<"--download flag is not supported in batch mode">>
    ELSE <<>>

Validate ==
    /\ pc = "main"
    /\ IF UsageError(args) # <<>>
       THEN /\ stderr' = Append(stderr, <<"usage: error: ">> \o UsageError(args))
            /\ Exits(ParserErrorStatus)
       ELSE /\ pc' = IF Truthy(args.batch) THEN "batch_read" ELSE "single"
            /\ UNCHANGED <<stderr, exitCode, uncaught, raisedAt>>
    /\ UNCHANGED <<args, fs0, fs, batchRead, net, stdout, video_id, output_path,
                   success, resp1, urls, idx, table_lines, processed_count, metaCall>>

(***************************************************************************)
(* cli.py: process_batch_urls, reading the file (lines 22-43)              *)
(***************************************************************************)
\* [line.strip() for line in f if line.strip()]
RECURSIVE StripLines(_)
StripLines(lines) ==
    IF lines = <<>> THEN <<>>
    ELSE LET s == Strip(Head(lines) \o <<"\n">>)
         IN  (IF s # <<>> THEN <<s>> ELSE <<>>) \o StripLines(Tail(lines))

BatchRead ==
    /\ pc = "batch_read"
    /\ \E rd \in BatchReads :
        /\ batchRead' = [done |-> TRUE, exc |-> rd.exc, lines |-> rd.lines]
        /\ IF rd.exc # "" /\ Catches({"FileNotFoundError"}, rd.exc)
           THEN /\ stderr' = Append(stderr, <<"Error: Batch file not found: ">> \o args.batch.val)
                /\ Exits(1)
                /\ UNCHANGED <<urls, table_lines>>
           ELSE IF rd.exc # "" /\ Catches({"OSError"}, rd.exc)
           THEN /\ stderr' = Append(stderr, <<"Error: Could not read batch file: ", rd.exc>>)
                /\ Exits(1)
                /\ UNCHANGED <<urls, table_lines>>
           ELSE IF rd.exc # ""
           THEN /\ stderr' = Append(stderr, Traceback(rd.exc))
                /\ Raises(rd.exc)
                /\ UNCHANGED <<urls, table_lines>>
           ELSE IF StripLines(rd.lines) = <<>>
           THEN /\ stderr' = Append(stderr, <<"Error: No URLs found in batch file: ">> \o args.batch.val)
                /\ Exits(1)
                /\ UNCHANGED <<urls, table_lines>>
           ELSE /\ urls' = StripLines(rd.lines)
                /\ table_lines' = <<TableHeader, TableSeparator>>
                /\ pc' = "batch_loop"
                /\ UNCHANGED <<stderr, exitCode, uncaught, raisedAt>>
    /\ UNCHANGED <<args, fs0, fs, net, stdout, video_id, output_path, success, resp1,
                   idx, processed_count, metaCall>>

(***************************************************************************)
(* cli.py: process_batch_urls, one iteration of the loop (lines 44-68)     *)
(***************************************************************************)
\* except Exception
RowHandlers == {"Exception"}

BatchStep ==
    /\ pc = "batch_loop"
    /\ idx <= Len(urls)
    /\ \E url \in {urls[idx]} : \E vid \in {extract_video_id(url)} :
           IF vid = NoMatch
           THEN /\ stderr' = Append(stderr, <<"Warning: Skipping invalid URL: ">> \o url)
                /\ idx' = idx + 1
                /\ UNCHANGED <<pc, exitCode, uncaught, raisedAt, net, table_lines,
                               processed_count, metaCall>>
           ELSE \E fetch \in Fetches : \E m \in {get_video_metadata(vid, fetch)} :
                    /\ net' = Append(net, WatchUrl(vid))
                    /\ metaCall' = [called |-> TRUE, vid |-> vid, fetch |-> fetch,
                                    exc |-> m.exc, ret |-> m.ret]
                    /\ IF m.exc = ""
                       THEN /\ table_lines' = Append(table_lines, TableRow(m.ret))
                            /\ processed_count' = processed_count + 1
                            /\ stderr' = Append(stderr,
                                            <<"Processed: ">> \o TitleCell(m.ret.title))
                            /\ idx' = idx + 1
                            /\ UNCHANGED <<pc, exitCode, uncaught, raisedAt>>
                       ELSE IF Catches(RowHandlers, m.exc)
                       THEN /\ stderr' = Append(stderr,
                                            <<"Warning: Error processing ">> \o url \o <<": ", m.exc>>)
                            /\ idx' = idx + 1
                            /\ UNCHANGED <<pc, exitCode, uncaught, raisedAt, table_lines,
                                           processed_count>>
                       ELSE /\ stderr' = Append(stderr, Traceback(m.exc))
                            /\ Raises(m.exc)
                            /\ UNCHANGED <<idx, table_lines, processed_count>>
    /\ UNCHANGED <<args, fs0, fs, batchRead, stdout, video_id, output_path, success,
                   resp1, urls>>

(***************************************************************************)
(* cli.py: process_batch_urls, after the loop (lines 70-98)                *)
(***************************************************************************)
\* the test had it never fired
NoRowsProducedOff(count) == count < 0
\* if processed_count == 0
NoRowsProduced(count) == count = 0

\* what mkdir / open(output_file, "w") / the two writes and the close do
BatchIoOutcomes == {"ok", "mkdir_fails", "open_fails", "write_fails"}

BatchFinish ==
    /\ pc = "batch_loop"
    /\ idx > Len(urls)
    /\ \E output_text \in {JoinLines(table_lines)} :
       LET summary == <<"Processed ", processed_count, " of ", Len(urls), " URLs">>
           output_file == args.output
       IN  IF NoRowsProduced(processed_count)
           THEN /\ stderr' = Append(stderr, <<"Error: No valid URLs were processed">>)
                /\ Exits(1)
                /\ UNCHANGED <<fs, stdout>>
           ELSE IF Truthy(output_file)
           THEN \E io \in BatchIoOutcomes :
                LET mk == HasParentDir(output_file.val)
                IN  IF mk /\ io = "mkdir_fails"
                    THEN /\ stderr' = Append(stderr,
                                        <<"Error: Could not write to output file: ", "OSError">>)
                         /\ Exits(1)
                         /\ UNCHANGED <<fs, stdout>>
                    ELSE IF io = "open_fails"
                    THEN /\ fs' = [fs EXCEPT !.parentMade = @ \/ mk]
                         /\ stderr' = Append(stderr,
                                        <<"Error: Could not write to output file: ", "OSError">>)
                         /\ Exits(1)
                         /\ UNCHANGED stdout
                    ELSE IF io = "write_fails"
                    THEN /\ fs' = [parentMade |-> fs.parentMade \/ mk,
                                   file |-> [exists |-> TRUE,
                                             data |-> <<"part of the text of the table">>]]
                         /\ stderr' = Append(stderr,
                                        <<"Error: Could not write to output file: ", "OSError">>)
                         /\ Exits(1)
                         /\ UNCHANGED stdout
                    ELSE /\ fs' = [parentMade |-> fs.parentMade \/ mk,
                                   file |-> [exists |-> TRUE,
                                             data |-> output_text \o <<"\n">>]]
                         /\ stderr' = stderr \o
                               << <<"\nSuccessfully wrote markdown table to: ">> \o output_file.val,
                                  summary >>
                         /\ Exits(0)
                         /\ UNCHANGED stdout
           ELSE /\ stdout' = Append(stdout, output_text)
                /\ stderr' = Append(stderr, <<"\n">> \o summary)
                /\ Exits(0)
                /\ UNCHANGED fs
    /\ UNCHANGED <<args, fs0, batchRead, net, video_id, output_path, success, resp1,
                   urls, idx, table_lines, processed_count, metaCall>>

(***************************************************************************)
(* cli.py: main(), single-URL mode up to the download (lines 162-189)      *)
(***************************************************************************)
Single ==
    /\ pc = "single"
    /\ \E vid \in {extract_video_id(args.url.val)} :
       LET path == IF Truthy(args.output) THEN args.output.val ELSE vid \o <<".jpg">>
       IN  IF vid = NoMatch
           THEN /\ stderr' = stderr \o
                     << <<"Error: Could not extract video ID from URL: ">> \o args.url.val,
                        <<"Supported formats:">>,
                        <<"  - https://www.youtube.com/watch?v=VIDEO_ID">>,
                        <<"  - https://youtu.be/VIDEO_ID">>,
                        <<"  - https://www.youtube.com/embed/VIDEO_ID">> >>
                /\ Exits(1)
                /\ UNCHANGED <<fs, stdout, video_id, output_path>>
           ELSE IF ~args.download
           THEN /\ stdout' = Append(stdout, get_thumbnail_url(vid))
                /\ video_id' = vid
                /\ Exits(0)
                /\ UNCHANGED <<fs, stderr, output_path>>
           ELSE \E mkdir_fails \in BOOLEAN :
                /\ video_id' = vid
                /\ output_path' = path
                /\ IF HasParentDir(path) /\ mkdir_fails
                   THEN /\ stderr' = Append(stderr, Traceback("OSError"))
                        /\ Raises("OSError")
                        /\ UNCHANGED <<fs, stdout>>
                   ELSE /\ fs' = [fs EXCEPT !.parentMade = @ \/ HasParentDir(path)]
                        /\ stdout' = stdout \o
                              << <<"Downloading thumbnail for video ID: ">> \o vid,
                                 <<"Saving to: ">> \o path >>
                        /\ pc' = "tier1"
                        /\ UNCHANGED <<stderr, exitCode, uncaught, raisedAt>>
    /\ UNCHANGED <<args, fs0, batchRead, net, success, resp1, urls, idx, table_lines,
                   processed_count, metaCall>>

(***************************************************************************)
(* extractor.py: download_thumbnail, the maxresdefault attempt (69-81)     *)
(***************************************************************************)
Tier1 ==
    /\ pc = "tier1"
    /\ \E resp \in Responses, io \in IoOutcomes :
        \E r \in {TryMaxRes(fs.file, video_id, resp, io)} :
            /\ net' = Append(net, MaxResUrl(video_id))
            /\ resp1' = [acted |-> TRUE, exc |-> resp.exc, cl |-> resp.cl]
            /\ fs' = [fs EXCEPT !.file = r.file]
            /\ IF r.exc # ""
               THEN /\ stderr' = Append(stderr, Traceback(r.exc))
                    /\ Raises(r.exc)
                    /\ UNCHANGED success
               ELSE /\ success' = r.ret
                    /\ pc' = IF r.ret = "True" THEN "report" ELSE "tier2"
                    /\ UNCHANGED <<stderr, exitCode, uncaught, raisedAt>>
    /\ UNCHANGED <<args, fs0, batchRead, stdout, video_id, output_path, urls, idx,
                   table_lines, processed_count, metaCall>>

(***************************************************************************)
(* extractor.py: download_thumbnail, the hqdefault fallback (83-92)        *)
(***************************************************************************)
Tier2 ==
    /\ pc = "tier2"
    /\ \E resp \in Responses, io \in IoOutcomes :
        \E r \in {TryHq(fs.file, video_id, resp, io)} :
            /\ net' = Append(net, HqUrl(video_id))
            /\ fs' = [fs EXCEPT !.file = r.file]
            /\ IF r.exc # ""
               THEN /\ stderr' = Append(stderr, Traceback(r.exc))
                    /\ Raises(r.exc)
                    /\ UNCHANGED success
               ELSE /\ success' = r.ret
                    /\ pc' = "report"
                    /\ UNCHANGED <<stderr, exitCode, uncaught, raisedAt>>
    /\ UNCHANGED <<args, fs0, batchRead, stdout, video_id, output_path, resp1, urls,
                   idx, table_lines, processed_count, metaCall>>

(***************************************************************************)
(* cli.py: main(), reporting the download (lines 191-200)                  *)
(***************************************************************************)
Report ==
    /\ pc = "report"
    /\ IF success = "True"
       THEN /\ stdout' = Append(stdout,
                            <<"Successfully downloaded thumbnail to ">> \o output_path)
            /\ Exits(0)
            /\ UNCHANGED stderr
       ELSE /\ stderr' = Append(stderr,
                            <<"Error: Failed to download thumbnail for video ID: ">> \o video_id)
            /\ Exits(1)
            /\ UNCHANGED stdout
    /\ UNCHANGED <<args, fs0, fs, batchRead, net, video_id, output_path, success,
                   resp1, urls, idx, table_lines, processed_count, metaCall>>

(***************************************************************************)
(* The command: one run of main() for every argument list and environment. *)
(***************************************************************************)
NoCall == [called |-> FALSE, vid |-> <<>>, fetch |-> [exc |-> "", html |-> <<>>],
           exc |-> "", ret |-> [title |-> <<>>, description |-> <<>>,
                                thumbnail_url |-> <<>>]]
NoResp == [acted |-> FALSE, exc |-> "", cl |-> NONE]

MainStart(a, f) ==
    /\ pc = "main"
    /\ args = a
    /\ fs0 = f
    /\ fs = [parentMade |-> FALSE, file |-> f]
    /\ batchRead = [done |-> FALSE, exc |-> "", lines |-> <<>>]
    /\ net = <<>>
    /\ stdout = <<>>
    /\ stderr = <<>>
    /\ exitCode = -1
    /\ uncaught = ""
    /\ raisedAt = ""
    /\ video_id = <<>>
    /\ output_path = <<>>
    /\ success = ""
    /\ resp1 = NoResp
    /\ urls = <<>>
    /\ idx = 1
    /\ table_lines = <<>>
    /\ processed_count = 0
    /\ metaCall = NoCall

NoArgs == [url |-> NONE, batch |-> NONE, download |-> FALSE, output |-> NONE]
ExtractIdle == xurl = <<>> /\ xres = NoMatch /\ xdone = TRUE
RowIdle ==
    /\ rmeta = [title |-> <<>>, description |-> <<>>, thumbnail_url |-> <<>>]
    /\ rrow = [title |-> <<>>, description |-> <<>>, line |-> <<>>]
    /\ rdone = TRUE

Init ==
    /\ \E a \in ArgSets, f \in {NoFile, OldFile} : MainStart(a, f)
    /\ ExtractIdle
    /\ RowIdle

Next ==
    \/ Validate /\ UNCHANGED <<extractVars, rowVars>>
    \/ BatchRead /\ UNCHANGED <<extractVars, rowVars>>
    \/ BatchStep /\ UNCHANGED <<extractVars, rowVars>>
    \/ BatchFinish /\ UNCHANGED <<extractVars, rowVars>>
    \/ Single /\ UNCHANGED <<extractVars, rowVars>>
    \/ Tier1 /\ UNCHANGED <<extractVars, rowVars>>
    \/ Tier2 /\ UNCHANGED <<extractVars, rowVars>>
    \/ Report /\ UNCHANGED <<extractVars, rowVars>>

Spec == Init /\ [][Next]_vars

(***************************************************************************)
(* extract_video_id on its own: one call on a string made of pieces.       *)
(***************************************************************************)
Ten == <<"a", "b", "c", "d", "e", "f", "g", "h", "i", "j", "&">>
NearShort == <<"y", "o", "u", "t", "u", "x", "b", "e", "/">>
\* the three literals, two identifiers, ten identifier characters followed by a
\* character outside the alphabet, and a near miss of the short literal
Pieces == {WatchLit, ShortLit, EmbedLit, IdA, IdB, Ten, NearShort}
ExtractInputs == {Flatten(ps) : ps \in SeqsUpTo(Pieces, MaxPieces)}

ExtractInit ==
    /\ xurl \in ExtractInputs
    /\ xres = NoMatch
    /\ xdone = FALSE
    /\ MainStart(NoArgs, NoFile)
    /\ RowIdle

ExtractCall ==
    /\ ~xdone
    /\ xres' = extract_video_id(xurl)
    /\ xdone' = TRUE
    /\ UNCHANGED <<xurl, mainVars, rowVars>>

ExtractNext == ExtractCall

SpecExtract == ExtractInit /\ [][ExtractNext]_vars

(***************************************************************************)
(* One metadata record turned into a table row, on its own.                *)
(***************************************************************************)
\* descriptions a^i |^j b^k with i around the limits, titles with and without `|`
HeadLens == {0, 1} \cup ((DescKeep - MaxPipes)..(DescLimit + 1))
RowDescriptions ==
    {Repeat("a", i) \o Repeat("|", j) \o Repeat("b", k) :
        i \in HeadLens, j \in 0..MaxPipes, k \in 0..MaxTail}
RowTitles == {<<>>, <<"a", "|", "b">>, Repeat("t", DescLimit) \o <<"|", "|">>}

RowInit ==
    /\ \E t \in RowTitles, d \in RowDescriptions :
          rmeta = [title |-> t, description |-> d, thumbnail_url |-> get_thumbnail_url(IdA)]
    /\ rrow = [title |-> <<>>, description |-> <<>>, line |-> <<>>]
    /\ rdone = FALSE
    /\ MainStart(NoArgs, NoFile)
    /\ ExtractIdle

RowCall ==
    /\ ~rdone
    /\ rrow' = [title |-> TitleCell(rmeta.title),
                description |-> DescriptionCell(rmeta.description),
                line |-> TableRow(rmeta)]
    /\ rdone' = TRUE
    /\ UNCHANGED <<rmeta, mainVars, extractVars>>

RowNext == RowCall

SpecRow == RowInit /\ [][RowNext]_vars

(***************************************************************************)
(* Vocabulary of the properties.                                           *)
(***************************************************************************)
StartsWith(t, lit) == Len(t) >= 1 /\ t[1] = lit
Done == pc = "done"

\* arguments that pass validation (an argument counts when it is non-empty)
BatchMode == Truthy(args.batch) /\ ~Truthy(args.url) /\ ~args.download
SingleMode == Truthy(args.url) /\ ~Truthy(args.batch)
DownloadMode == SingleMode /\ args.download

ReadOk == batchRead.done /\ batchRead.exc = ""
NonBlank(line) == \E i \in 1..Len(line) : line[i] \notin Whitespace
NonBlankLines == {i \in 1..Len(batchRead.lines) : NonBlank(batchRead.lines[i])}
Extractable(u) == extract_video_id(u) # NoMatch
ValidLines == {i \in NonBlankLines : Extractable(batchRead.lines[i])}
LoopOver == ReadOk /\ urls # <<>> /\ idx > Len(urls)
DataRows == Len(table_lines) - 2
SkipWarnings ==
    Cardinality({i \in 1..Len(stderr) : StartsWith(stderr[i], "Warning: Skipping invalid URL: ")})

\* the text of the table as it was emitted: printed, or written followed by "\n"
TableText == JoinLines(table_lines)
TableEmitted ==
    IF Truthy(args.output)
    THEN fs.file.exists /\ fs.file.data = TableText \o <<"\n">>
    ELSE stdout = <<TableText>>

(***************************************************************************)
(* C1: in batch mode, a file whose non-blank lines are N >= 1 lines with   *)
(* an identifier and one line without yields exactly N data rows and       *)
(* exactly one skip warning, is never aborted, and ends with exit code 0   *)
(* and the N-row table emitted.                                            *)
(***************************************************************************)
C1_BatchResilient ==
    (BatchMode /\ ReadOk /\ Cardinality(ValidLines) >= 1
        /\ Cardinality(NonBlankLines \ ValidLines) = 1)
    => /\ uncaught = ""
       /\ pc \in {"batch_loop", "done"}
       /\ idx > Len(urls) => DataRows = Cardinality(ValidLines) /\ SkipWarnings = 1
       /\ Done => exitCode = 0 /\ TableEmitted

(***************************************************************************)
(* What the maxresdefault response was, for C2.                            *)
(***************************************************************************)
HeaderNumber(h) == ParseInt(h.val)
Tier1Usable ==
    /\ resp1.exc = ""
    /\ Truthy(resp1.cl)
    /\ HeaderNumber(resp1.cl).exc = ""
    /\ HeaderNumber(resp1.cl).val > 1000
Tier1Rejected ==
    \/ resp1.exc \in {"HTTPError", "URLError"}
    \/ /\ resp1.exc = ""
       /\ \/ ~resp1.cl.present
          \/ Truthy(resp1.cl) /\ HeaderNumber(resp1.cl).exc = ""
                /\ HeaderNumber(resp1.cl).val <= 1000

(***************************************************************************)
(* C2: download_thumbnail requests maxresdefault first; a response with    *)
(* Content-Length > 1000 is written, success is reported and hqdefault is  *)
(* never requested; after a network/HTTP error or an absent or <= 1000     *)
(* Content-Length, hqdefault is requested next and a reported success      *)
(* saved the hqdefault bytes; at most two requests are made.               *)
(***************************************************************************)
C2_DownloadFallback ==
    (DownloadMode /\ resp1.acted)
    => /\ net[1] = MaxResUrl(video_id)
       /\ Len(net) <= 2
       /\ Tier1Usable =>
             /\ fs.file = [exists |-> TRUE, data |-> Body(MaxResUrl(video_id))]
             /\ success = "True"
             /\ net = <<MaxResUrl(video_id)>>
       /\ Tier1Rejected =>
             /\ pc = "tier2" \/ (Len(net) = 2 /\ net[2] = HqUrl(video_id))
             /\ success = "True" =>
                   fs.file = [exists |-> TRUE, data |-> Body(HqUrl(video_id))]

(***************************************************************************)
(* C3: no exception propagates past the command surface: every run ends by *)
(* returning or by a deliberate exit, never with an uncaught exception.    *)
(***************************************************************************)
C3_NoUncaughtException == uncaught = ""

(***************************************************************************)
(* C4: get_video_metadata never raises: whatever the GET of the watch page *)
(* does, it returns a record with exactly title, description and           *)
(* thumbnail_url, the last equal to get_thumbnail_url(identifier), and     *)
(* with empty title and description whenever the fetch failed.             *)
(***************************************************************************)
C4_MetadataNeverRaises ==
    metaCall.called
    => /\ metaCall.exc = ""
       /\ DOMAIN metaCall.ret = {"title", "description", "thumbnail_url"}
       /\ metaCall.ret.thumbnail_url = get_thumbnail_url(metaCall.vid)
       /\ metaCall.fetch.exc # "" =>
             metaCall.ret.title = <<>> /\ metaCall.ret.description = <<>>

(***************************************************************************)
(* Exit codes: the cases of C5.                                            *)
(***************************************************************************)
UrlWithBatch == Truthy(args.url) /\ Truthy(args.batch)
NeitherUrlNorBatch == ~Truthy(args.url) /\ ~Truthy(args.batch)
DownloadWithBatch == args.download /\ Truthy(args.batch)
ValidationError == UrlWithBatch \/ NeitherUrlNorBatch \/ DownloadWithBatch

\* nothing was read, requested, printed to standard output, written or created
Untouched ==
    /\ ~batchRead.done
    /\ net = <<>>
    /\ stdout = <<>>
    /\ fs = [parentMade |-> FALSE, file |-> fs0]

EmptyBatch == BatchMode /\ ReadOk /\ NonBlankLines = {}
ZeroRows == BatchMode /\ LoopOver /\ processed_count = 0

\* the requested operation succeeded
Succeeded ==
    /\ ~ValidationError
    /\ IF BatchMode THEN LoopOver /\ processed_count >= 1 /\ TableEmitted
       ELSE IF DownloadMode
       THEN /\ video_id # <<>>
            /\ fs.file.exists
            /\ fs.file.data \in {Body(MaxResUrl(video_id)), Body(HqUrl(video_id))}
       ELSE video_id # <<>> /\ stdout = <<get_thumbnail_url(video_id)>>

\* the failures the claim lists, other than the validation errors
ListedFailure ==
    /\ ~ValidationError
    /\ \/ SingleMode /\ ~Extractable(args.url.val)
       \/ BatchMode /\ batchRead.done /\ batchRead.exc = "FileNotFoundError"
       \/ EmptyBatch
       \/ ZeroRows
       \/ DownloadMode /\ success = "False"

C6_NoOutputWithoutRows ==
    (EmptyBatch \/ ZeroRows)
    => /\ stdout = <<>>
       /\ fs = [parentMade |-> FALSE, file |-> fs0]
       /\ EmptyBatch => Done
       /\ Done =>
             /\ exitCode = 1
             /\ uncaught = ""
             /\ StartsWith(stderr[Len(stderr)],
                           IF EmptyBatch THEN "Error: No URLs found in batch file: "
                           ELSE "Error: No valid URLs were processed")

C6_Witness ==
    /\ ZeroRows /\ Done
    /\ Len(urls) >= 2
    /\ \E i \in 1..Len(urls) : Extractable(urls[i])
    /\ Truthy(args.output) /\ HasParentDir(args.output.val)
    /\ fs0.exists

(***************************************************************************)
(* Occurrences of a shape in a string, for C7.                             *)
(***************************************************************************)
\* the shape `lit` followed by 11 allowed characters occurs in u at position i
ShapeAt(lit, u, i) ==
    /\ i + Len(lit) + 10 <= Len(u)
    /\ SubSeq(u, i, i + Len(lit) - 1) = lit
    /\ \A j \in (i + Len(lit))..(i + Len(lit) + 10) : u[j] \in IdChars
Occurrences(lit, u) == {i \in 1..Len(u) : ShapeAt(lit, u, i)}
FirstOccurrence(lit, u) ==
    CHOOSE i \in Occurrences(lit, u) : \A j \in Occurrences(lit, u) : i <= j
TokenAfterFirst(lit, u) ==
    SubSeq(u, FirstOccurrence(lit, u) + Len(lit), FirstOccurrence(lit, u) + Len(lit) + 10)

(***************************************************************************)
(* C7: extract_video_id returns the 11 characters after the first          *)
(* occurrence of the highest-priority shape (watch, short, embed) that     *)
(* occurs with 11 allowed characters after it, wherever the lower-priority *)
(* shapes occur; the result is 11 characters of the alphabet; and it is    *)
(* "not found" exactly when none of the three shapes occurs.               *)
(***************************************************************************)
C7_ExtractPriority ==
    xdone
    => /\ IF Occurrences(WatchLit, xurl) # {} THEN xres = TokenAfterFirst(WatchLit, xurl)
          ELSE IF Occurrences(ShortLit, xurl) # {} THEN xres = TokenAfterFirst(ShortLit, xurl)
          ELSE IF Occurrences(EmbedLit, xurl) # {} THEN xres = TokenAfterFirst(EmbedLit, xurl)
          ELSE xres = NoMatch
       /\ xres # NoMatch => Len(xres) = 11 /\ \A i \in 1..11 : xres[i] \in IdChars
       /\ xres = NoMatch <=>
             \A lit \in {WatchLit, ShortLit, EmbedLit} : Occurrences(lit, xurl) = {}

\* an embed shape and a short shape both come before the watch shape, and the
\* token of the watch shape is returned
C7_Witness ==
    /\ xdone
    /\ Occurrences(WatchLit, xurl) # {}
    /\ \E i \in Occurrences(ShortLit, xurl) \cup Occurrences(EmbedLit, xurl) :
          i < FirstOccurrence(WatchLit, xurl)
    /\ xres = TokenAfterFirst(WatchLit, xurl)
    /\ xres = IdB

(***************************************************************************)
(* The cells of a table row: the vocabulary of C8.                         *)
(***************************************************************************)
\* every `|` of raw replaced with `\|`, by position
Escaped(raw) ==
    Flatten([i \in 1..Len(raw) |-> IF raw[i] = "|" THEN <<"\\", "|">> ELSE <<raw[i]>>])
\* every `|` of the cell has a `\` before it
PipesEscaped(cell) ==
    \A i \in 1..Len(cell) : cell[i] = "|" => i > 1 /\ cell[i - 1] = "\\"
\* 97 characters followed by `...`
Truncated(cell) == Len(cell) = 100 /\ SubSeq(cell, 98, 100) = <<".", ".", ".">>

\* C8 as claimed: every `|` of the title and of the description is replaced
\* with `\|`; the description cell is truncated exactly when the scraped
\* description is longer than 100 characters, to 97 characters and `...`; a
\* description of at most 100 characters appears in full, only escaped; the
\* title is never truncated.
C8_TruncatedByScrapedLength ==
    rdone
    => /\ rrow.title = Escaped(rmeta.title)
       /\ IF Len(rmeta.description) > 100
          THEN Truncated(rrow.description)
          ELSE rrow.description = Escaped(rmeta.description)

\* C8 as amended: every `|` of the title is replaced with `\|` and the title is
\* never truncated; the description cell is truncated exactly when the escaped
\* description is longer than 100 characters, and is then its first 97
\* characters followed by `...` (100 characters in total); an escaped
\* description of at most 100 characters appears in full; every `|` left in
\* either cell has a `\` before it.
C8_TruncatedByEscapedLength ==
    rdone
    => /\ rrow.title = Escaped(rmeta.title)
       /\ IF Len(Escaped(rmeta.description)) > 100
          THEN /\ Truncated(rrow.description)
               /\ SubSeq(rrow.description, 1, 97) = SubSeq(Escaped(rmeta.description), 1, 97)
          ELSE rrow.description = Escaped(rmeta.description)
       /\ PipesEscaped(rrow.title) /\ PipesEscaped(rrow.description)
       /\ rrow.line = <<"| ">> \o rmeta.thumbnail_url \o <<" | ">> \o rrow.title
                         \o <<" | ">> \o rrow.description \o <<" |">>

\* a scraped description of at most 100 characters, longer than 100 once
\* escaped, is cut, and the cut falls between a `\` and its `|`
C8_Witness ==
    /\ rdone
    /\ Len(rmeta.description) <= 100
    /\ Len(Escaped(rmeta.description)) > 100
    /\ Truncated(rrow.description)
    /\ rrow.description[97] = "\\"

(***************************************************************************)
(* C9: a maxresdefault attempt that does not end in reported success       *)
(* (request failed, Content-Length rejected, or reading the body failed)   *)
(* has neither created nor modified the destination file.                  *)
(***************************************************************************)
C9_FailedMaxResWritesNothing ==
    (DownloadMode /\ resp1.acted /\ Len(net) = 1 /\ success # "True")
    => fs.file = fs0

(***************************************************************************)
(* The emitted table and the processed URLs, for C10.                      *)
(***************************************************************************)
\* the URLs of the file that produced a row: the loop printed "Processed: "
RECURSIVE ProcessedFrom(_)
ProcessedFrom(i) ==
    IF i > Len(urls) THEN <<>>
    ELSE (IF StartsWith(stderr[i], "Processed: ") THEN <<urls[i]>> ELSE <<>>)
            \o ProcessedFrom(i + 1)
ProcessedUrls == ProcessedFrom(1)
EmittedText ==
    IF Truthy(args.output) THEN SubSeq(fs.file.data, 1, Len(fs.file.data) - 1)
    ELSE stdout[1]
IsPrefix(p, t) == Len(p) <= Len(t) /\ SubSeq(t, 1, Len(p)) = p

(***************************************************************************)
(* C10: batch output with k >= 1 processed URLs, split on newlines, is the *)
(* header, the separator and exactly k data lines, the i-th holding the    *)
(* thumbnail URL of the i-th processed URL in file order, whatever the     *)
(* scraped titles and descriptions; metadata is fetched in file order,     *)
(* only for lines with an extractable identifier.                          *)
(***************************************************************************)
C10_TableShape ==
    (BatchMode /\ Done /\ exitCode = 0)
    => /\ processed_count >= 1
       /\ Len(ProcessedUrls) = processed_count
       /\ Len(SplitLines(EmittedText)) = 2 + processed_count
       /\ SplitLines(EmittedText)[1] = TableHeader
       /\ SplitLines(EmittedText)[2] = TableSeparator
       /\ \A i \in 1..processed_count :
             IsPrefix(<<"| ">> \o get_thumbnail_url(extract_video_id(ProcessedUrls[i])),
                      SplitLines(EmittedText)[2 + i])
       /\ Len(net) = Len(SelectSeq(urls, Extractable))
       /\ \A i \in 1..Len(net) :
             net[i] = WatchUrl(extract_video_id(SelectSeq(urls, Extractable)[i]))

====
